---- MODULE Spec2Model ----
(***************************************************************************)
(* A model of the caching / pooling layer of body-parser:                  *)
(*   lib/buffer-pool.js         BufferPool   (globalPool)                  *)
(*   lib/parse-cache.js         ParseCache   (jsonCache, urlencodedCache)  *)
(*                              and the periodic cleanup timer             *)
(*   lib/content-type-cache.js  ContentTypeCache (globalCache)             *)
(* Every operation of a class is a pure operator over a record holding the *)
(* object's fields; an action applies it to the process-wide instance.     *)
(***************************************************************************)
EXTENDS Integers, Sequences, FiniteSets, TLC

----------------------------------------------------------------------------
(* Generic helpers                                                         *)

Max(a, b) == IF a >= b THEN a ELSE b

Min(a, b) == IF a <= b THEN a ELSE b

\* Array.prototype.splice(i, 1): the sequence without its i-th element.
RemoveAt(s, i) == [k \in 1..(Len(s) - 1) |-> IF k < i THEN s[k] ELSE s[k + 1]]

Range(s) == {s[k] : k \in DOMAIN s}

----------------------------------------------------------------------------
(* lib/buffer-pool.js                                                      *)

POOL_SIZE == 8 * 1024

MAX_POOL_ENTRIES == 50

\* Bounds of the buffer-pool model: acquire calls made in the modelled run,
\* on a fresh pool and on a warm one.
MaxAcquires == 3

MaxWarmAcquires == 2

\* Request handlers that may hold a buffer at the same time.
Callers == {"h1", "h2"}

\* Requested sizes: empty, small, the size class, the pooled limit, beyond it.
Sizes == {0, 100, POOL_SIZE, 2 * POOL_SIZE, 2 * POOL_SIZE + 1}

\* Byte offsets whose content the model tracks (a byte is zero or non-zero).
Offsets == {0, 100}

\* Idle buffers a warm pool holds when the modelled run starts: the pool
\* left by that many acquire(POOL_SIZE) misses followed by as many releases.
WarmPools == {MAX_POOL_ENTRIES - 1}

NoBuf == [store |-> 0, length |-> 0]

VARIABLES
    globalPool,   \* the BufferPool instance: [pool, hits, misses]
    mem,          \* backing storage: store -> offsets holding a non-zero byte
    callers,      \* request handlers: [pc, buf]
    warm,         \* acquires made before the modelled run
    ret,          \* the last operation and what it returned
    jsonCache,    \* a ParseCache: [cache, ttl, maxSize, hits, misses, evictions]
    now,          \* Date.now()
    lastSet,      \* body -> time and value of the latest set(body, value)
    inserted,     \* bodies set since construction / clear(), while distinct
    gets,         \* get calls made
    sets,         \* set calls made
    poolAudit,    \* what the callers of the pool saw: [acquires, served, idle]
    urlencodedCache,  \* the ParseCache of form-encoded bodies
    formCalls,    \* set calls made on urlencodedCache
    globalCache,  \* the ContentTypeCache instance: [cache, hits, misses]
    ctCalls       \* parse calls: [run, parses, parser, returned]

cacheVars == <<jsonCache, now, lastSet, inserted, gets, sets>>

poolVars == <<globalPool, mem, callers, warm, poolAudit>>

formVars == <<urlencodedCache, formCalls>>

ctVars == <<globalCache, ctCalls>>

\* A Buffer is a view [0, length) of a backing store.
BufferOf(s, n) == [store |-> s, length |-> n]

\* The bytes a view shows are all zero.
AllZero(M, buf) == \A o \in M[buf.store] : o >= buf.length

\* Buffer.prototype.slice(0, end): a view sharing the storage.
slice(buf, end) == BufferOf(buf.store, Min(end, buf.length))

\* Buffer.prototype.fill(0): zeroes the bytes of the view, no others.
fill(M, buf) == [M EXCEPT ![buf.store] = {o \in @ : o >= buf.length}]

\* The scan of acquire: the first idle buffer with length >= size, 0 if none.
FirstFit(pool, size) ==
    LET fits == {i \in 1..Len(pool) : pool[i].length >= size}
    IN  IF fits = {} THEN 0 ELSE CHOOSE i \in fits : \A j \in fits : i <= j

\* Mutant: the idle buffer is returned as it is, not trimmed.
Untrimmed(buf, size) == buf

\* The buffer acquire returns on a hit: the idle buffer, trimmed to size.
Trimmed(buf, size) == IF buf.length = size THEN buf ELSE slice(buf, size)

\* Mutant: a hit is served and not counted.
acquireLosingHit(P, size) ==
    IF size > POOL_SIZE * 2
    THEN [P |-> [P EXCEPT !.misses = @ + 1], hit |-> FALSE,
          idle |-> NoBuf, buf |-> NoBuf, alloc |-> size]
    ELSE LET i == FirstFit(P.pool, size) IN
         IF i # 0
         THEN [P |-> [P EXCEPT !.pool = RemoveAt(@, i)],
               hit |-> TRUE, idle |-> P.pool[i],
               buf |-> Trimmed(P.pool[i], size), alloc |-> -1]
         ELSE [P |-> [P EXCEPT !.misses = @ + 1], hit |-> FALSE,
               idle |-> NoBuf, buf |-> NoBuf,
               alloc |-> Max(size, POOL_SIZE)]

\* Mutant: a hit leaves the buffer it returns in the idle set.
acquireNoSplice(P, size) ==
    IF size > POOL_SIZE * 2
    THEN [P |-> [P EXCEPT !.misses = @ + 1], hit |-> FALSE,
          idle |-> NoBuf, buf |-> NoBuf, alloc |-> size]
    ELSE LET i == FirstFit(P.pool, size) IN
         IF i # 0
         THEN [P |-> [P EXCEPT !.hits = @ + 1],
               hit |-> TRUE, idle |-> P.pool[i],
               buf |-> Trimmed(P.pool[i], size), alloc |-> -1]
         ELSE [P |-> [P EXCEPT !.misses = @ + 1], hit |-> FALSE,
               idle |-> NoBuf, buf |-> NoBuf,
               alloc |-> Max(size, POOL_SIZE)]

\* BufferPool.acquire(size). alloc is the length of the Buffer.allocUnsafe
\* the call makes (-1: none, the idle buffer taken from the pool, trimmed,
\* is returned as buf).
acquire(P, size) ==
    IF size > POOL_SIZE * 2
    THEN [P |-> [P EXCEPT !.misses = @ + 1], hit |-> FALSE,
          idle |-> NoBuf, buf |-> NoBuf, alloc |-> size]
    ELSE LET i == FirstFit(P.pool, size) IN
         IF i # 0
         THEN [P |-> [P EXCEPT !.pool = RemoveAt(@, i), !.hits = @ + 1],
               hit |-> TRUE, idle |-> P.pool[i],
               buf |-> Trimmed(P.pool[i], size), alloc |-> -1]
         ELSE [P |-> [P EXCEPT !.misses = @ + 1], hit |-> FALSE,
               idle |-> NoBuf, buf |-> NoBuf,
               alloc |-> Max(size, POOL_SIZE)]

\* Mutant: release pools the buffer without clearing it.
releaseUncleared(P, M, buffer) ==
    IF buffer.length <= POOL_SIZE * 2 /\ Len(P.pool) < MAX_POOL_ENTRIES
    THEN [P |-> [P EXCEPT !.pool = Append(@, buffer)], M |-> M]
    ELSE [P |-> P, M |-> M]

\* Mutant: release pools the buffer whatever the number of idle buffers.
releaseUncapped(P, M, buffer) ==
    IF buffer.length <= POOL_SIZE * 2
    THEN [P |-> [P EXCEPT !.pool = Append(@, buffer)], M |-> fill(M, buffer)]
    ELSE [P |-> P, M |-> M]

\* BufferPool.release(buffer): the pool and the memory after the call.
release(P, M, buffer) ==
    IF buffer.length <= POOL_SIZE * 2 /\ Len(P.pool) < MAX_POOL_ENTRIES
    THEN [P |-> [P EXCEPT !.pool = Append(@, buffer)], M |-> fill(M, buffer)]
    ELSE [P |-> P, M |-> M]

\* BufferPool.stats(); hitRate is kept as the pair hits / (hits + misses).
poolStats(P) ==
    [size |-> Len(P.pool), hits |-> P.hits, misses |-> P.misses,
     hitRate |-> IF P.hits + P.misses = 0 THEN <<0, 1>>
                 ELSE <<P.hits, P.hits + P.misses>>]

\* BufferPool.clear()
poolClear(P) == [P EXCEPT !.pool = <<>>]

\* Stores some reference can still reach.
Live(P, C) ==
    {P.pool[i].store : i \in 1..Len(P.pool)}
        \cup {C[c].buf.store : c \in {d \in Callers : C[d].pc # "idle"}}

\* Storage nobody references is reclaimed.
Collect(M, P, C) == [s \in Live(P, C) |-> M[s]]

\* The address of a new allocation: the lowest store not in use.
FreshStore(P, C) ==
    LET live == Live(P, C)
        free == (1..(Cardinality(live) + 1)) \ live
    IN  CHOOSE s \in free : \A t \in free : s <= t

Idle == [pc |-> "idle", buf |-> NoBuf]

\* The pool after n acquire(POOL_SIZE) misses and n releases (n = 0: new
\* BufferPool()), no handler holding a buffer.
PoolAfter(n) ==
    /\ globalPool = [pool |-> [i \in 1..n |-> BufferOf(i, POOL_SIZE)],
                     hits |-> 0, misses |-> n]
    /\ mem = [s \in 1..n |-> {}]
    /\ warm = n
    /\ callers = [c \in Callers |-> Idle]
    /\ poolAudit = [acquires |-> n, served |-> 0, idle |-> n]

\* A handler calls acquire(size). Buffer.allocUnsafe returns uninitialized
\* memory: any of the tracked bytes may be non-zero.
Acquire(c, size) ==
    /\ callers[c].pc = "idle"
    /\ globalPool.hits + globalPool.misses
           < warm + (IF warm = 0 THEN MaxAcquires ELSE MaxWarmAcquires)
    /\ LET r == acquire(globalPool, size)
           s == FreshStore(globalPool, callers)
       IN  \E garbage \in SUBSET {o \in Offsets : o < r.alloc} :
             LET b  == IF r.alloc >= 0 THEN BufferOf(s, r.alloc) ELSE r.buf
                 M  == IF r.alloc >= 0 THEN (s :> garbage) @@ mem ELSE mem
                 C  == [callers EXCEPT ![c] = [pc |-> "holding", buf |-> b]]
             IN  /\ globalPool' = r.P
                 /\ callers' = C
                 /\ mem' = Collect(M, r.P, C)
                 /\ ret' = [op |-> "acquire", caller |-> c, size |-> size,
                            buf |-> b, hit |-> r.hit, idle |-> r.idle,
                            recycled |-> /\ ret.op = "release"
                                         /\ ret.pooled /\ ret.dirty
                                         /\ ret.buf.store = b.store]
                 /\ poolAudit' =
                        [acquires |-> poolAudit.acquires + 1,
                         served |-> poolAudit.served
                                       + (IF r.alloc < 0 THEN 1 ELSE 0),
                         idle |-> poolAudit.idle
                                       - (IF r.alloc < 0 THEN 1 ELSE 0)]
    /\ UNCHANGED warm
    /\ UNCHANGED <<cacheVars, formVars, ctVars>>

\* The handler stages a non-zero byte at offset o of the buffer it holds.
Write(c, o) ==
    /\ callers[c].pc = "holding"
    /\ o < callers[c].buf.length
    /\ mem' = [mem EXCEPT ![callers[c].buf.store] = @ \cup {o}]
    /\ ret' = [op |-> "write", caller |-> c]
    /\ UNCHANGED <<globalPool, callers, warm, poolAudit>>
    /\ UNCHANGED <<cacheVars, formVars, ctVars>>

\* The handler calls release(buffer) on the buffer it acquired, once, and
\* keeps no reference to it (the contract of the upstream pipeline).
Release(c) ==
    /\ callers[c].pc = "holding"
    /\ LET r == release(globalPool, mem, callers[c].buf)
           C == [callers EXCEPT ![c] = Idle]
       IN  /\ globalPool' = r.P
           /\ callers' = C
           /\ mem' = Collect(r.M, r.P, C)
           /\ ret' = [op |-> "release", caller |-> c, buf |-> callers[c].buf,
                      dirty |-> ~AllZero(mem, callers[c].buf),
                      pooled |-> r.P # globalPool]
           /\ poolAudit' = [poolAudit EXCEPT
                               !.idle = @ + (IF r.P # globalPool THEN 1 ELSE 0)]
    /\ UNCHANGED warm
    /\ UNCHANGED <<cacheVars, formVars, ctVars>>

\* The handler drops the buffer without releasing it.
Forget(c) ==
    /\ callers[c].pc = "holding"
    /\ LET C == [callers EXCEPT ![c] = Idle]
       IN  /\ callers' = C
           /\ mem' = Collect(mem, globalPool, C)
    /\ ret' = [op |-> "forget", caller |-> c]
    /\ UNCHANGED <<globalPool, warm, poolAudit>>
    /\ UNCHANGED <<cacheVars, formVars, ctVars>>

\* Operator or test code calls clear().
PoolClear ==
    /\ globalPool' = poolClear(globalPool)
    /\ mem' = Collect(mem, globalPool', callers)
    /\ ret' = [op |-> "clear"]
    /\ poolAudit' = [poolAudit EXCEPT !.idle = 0]
    /\ UNCHANGED <<callers, warm>>
    /\ UNCHANGED <<cacheVars, formVars, ctVars>>

PoolNext ==
    \/ \E c \in Callers, size \in Sizes : Acquire(c, size)
    \/ \E c \in Callers, o \in Offsets : Write(c, o)
    \/ \E c \in Callers : Release(c)
    \/ \E c \in Callers : Forget(c)
    \/ PoolClear

----------------------------------------------------------------------------
(* lib/parse-cache.js                                                      *)

DEFAULT_TTL == 60000

MAX_CACHE_SIZE == 100

MAX_CACHEABLE_SIZE == 10 * 1024

\* Bounds of the parse-cache model: the last clock reading, and the get
\* and set calls made.
MaxNow == 2

MaxCalls == 3

\* Configured ttl values (ms): immediate expiry and a positive ttl.
TTLs == {0, 1}

\* Configured maxSize values.
MaxSizes == {0, 1, 2, 3}

\* Parse results.
Values == {"v", "w"}

\* What get returns when nothing is found.
Null == "null"

None == [at |-> -1, value |-> Null]

\* hash.update(text).digest('hex'): 64 hex characters, one text per digest.
sha256hex(text) == "sha256:" \o text

\* Buffer.prototype.toString(): UTF-8 decoding; a byte sequence that is not
\* valid UTF-8 decodes to U+FFFD.
utf8Decode(bytes) == IF bytes = "0xFF" THEN "U+FFFD" ELSE bytes

StringBody(text, n) == [type |-> "string", data |-> text, length |-> n]

BufferBody(bytes, n) == [type |-> "buffer", data |-> bytes, length |-> n]

\* The request bodies of the model: a short string, a 200-byte payload,
\* the 64-character string that spells the digest of that payload, a
\* one-byte buffer that is not valid UTF-8, and a body over the cacheable
\* size.
Bodies ==
    {StringBody("a=1", 3), StringBody("{id:1,...}", 200),
     StringBody(sha256hex("{id:1,...}"), 64), BufferBody("0xFF", 1),
     StringBody("big", MAX_CACHEABLE_SIZE + 1)}

\* The body is within the maximum cacheable size.
Cacheable(body) == body.length <= MAX_CACHEABLE_SIZE

\* typeof body === 'string' ? body : body.toString()
bodyText(body) ==
    IF body.type = "string" THEN body.data ELSE utf8Decode(body.data)

\* ParseCache._generateKey(body)
_generateKey(body) ==
    IF body.length < 100 THEN bodyText(body) ELSE sha256hex(bodyText(body))

\* new ParseCache(ttl, maxSize)
ParseCache(ttl, maxSize) ==
    [cache |-> <<>>, ttl |-> ttl, maxSize |-> maxSize,
     hits |-> 0, misses |-> 0, evictions |-> 0]

\* The keys of a Map, in insertion order.
Keys(cache) == [i \in 1..Len(cache) |-> cache[i].key]

\* Map.prototype.get(key): the index of the entry, 0 if absent.
IndexOf(cache, key) ==
    IF \E i \in 1..Len(cache) : cache[i].key = key
    THEN CHOOSE i \in 1..Len(cache) : cache[i].key = key
    ELSE 0

\* Map.prototype.delete(key)
MapDelete(cache, key) ==
    IF IndexOf(cache, key) = 0 THEN cache
    ELSE RemoveAt(cache, IndexOf(cache, key))

\* Mutant: setting a present key moves its entry to the end.
MapSetMovingToEnd(cache, key, entry) ==
    Append(MapDelete(cache, key),
           [key |-> key, value |-> entry.value,
            expiresAt |-> entry.expiresAt])

\* Map.prototype.set(key, entry): a present key keeps its position.
MapSet(cache, key, entry) ==
    LET e == [key |-> key, value |-> entry.value,
              expiresAt |-> entry.expiresAt]
    IN  IF IndexOf(cache, key) = 0 THEN Append(cache, e)
        ELSE [cache EXCEPT ![IndexOf(cache, key)] = e]

\* Mutant: an entry counts as expired from its expiry timestamp on.
ExpiredAtDeadline(entry, t) == t >= entry.expiresAt

\* The expiry test of get and cleanup.
Expired(entry, t) == t > entry.expiresAt

\* ParseCache.get(body) at time t: the cache after the call and the result.
get(C, body, t) ==
    IF body.length > MAX_CACHEABLE_SIZE
    THEN [C |-> C, result |-> Null]
    ELSE LET key == _generateKey(body)
             i   == IndexOf(C.cache, key)
         IN  IF i = 0
             THEN [C |-> [C EXCEPT !.misses = @ + 1], result |-> Null]
             ELSE IF Expired(C.cache[i], t)
             THEN [C |-> [C EXCEPT !.cache = MapDelete(@, key),
                                   !.misses = @ + 1],
                   result |-> Null]
             ELSE [C |-> [C EXCEPT !.hits = @ + 1],
                   result |-> C.cache[i].value]

\* Mutant: the eviction step removes the newest entry.
evictNewest(C) ==
    [C EXCEPT !.cache = IF @ = <<>> THEN @ ELSE MapDelete(@, @[Len(@)].key),
              !.evictions = @ + 1]

\* The eviction step of set: cache.keys().next().value is undefined on an
\* empty Map, and deleting it removes nothing.
evictOldest(C) ==
    [C EXCEPT !.cache = IF @ = <<>> THEN @ ELSE MapDelete(@, @[1].key),
              !.evictions = @ + 1]

\* Mutant: set without its size gate.
setUngated(C, body, value, t) ==
    LET E == IF Len(C.cache) >= C.maxSize THEN evictOldest(C) ELSE C
    IN  [E EXCEPT !.cache = MapSet(@, _generateKey(body),
                             [value |-> value, expiresAt |-> t + C.ttl])]

\* ParseCache.set(body, value) at time t: the cache after the call.
set(C, body, value, t) ==
    IF body.length > MAX_CACHEABLE_SIZE
    THEN C
    ELSE LET E == IF Len(C.cache) >= C.maxSize THEN evictOldest(C) ELSE C
         IN  [E EXCEPT !.cache = MapSet(@, _generateKey(body),
                                  [value |-> value, expiresAt |-> t + C.ttl])]

\* ParseCache.stats(); hitRate is kept as the pair hits / (hits + misses).
cacheStats(C) ==
    [size |-> Len(C.cache), hits |-> C.hits, misses |-> C.misses,
     evictions |-> C.evictions,
     hitRate |-> IF C.hits + C.misses = 0 THEN <<0, 1>>
                 ELSE <<C.hits, C.hits + C.misses>>]

\* ParseCache.clear()
cacheClear(C) == [C EXCEPT !.cache = <<>>]

\* The entries cleanup() leaves, in order.
Unexpired(cache, t) ==
    LET keep[i \in 0..Len(cache)] ==
            IF i = 0 THEN <<>>
            ELSE IF Expired(cache[i], t) THEN keep[i - 1]
            ELSE Append(keep[i - 1], cache[i])
    IN  keep[Len(cache)]

\* Mutant: cleanup counts every entry it removes as a miss.
cleanupCountingMisses(C, t) ==
    [C |-> [C EXCEPT !.cache = Unexpired(@, t),
                     !.misses = @ + Len(C.cache) - Len(Unexpired(C.cache, t))],
     cleaned |-> Len(C.cache) - Len(Unexpired(C.cache, t))]

\* ParseCache.cleanup() at time t: the cache after the call and the count.
cleanup(C, t) ==
    [C |-> [C EXCEPT !.cache = Unexpired(@, t)],
     cleaned |-> Len(C.cache) - Len(Unexpired(C.cache, t))]

\* The record of the bodies set so far, kept while it is a run of distinct
\* cacheable bodies no longer than r.
Void == [ok |-> FALSE, run |-> <<>>]

NoRun == [ok |-> TRUE, run |-> <<>>]

Extend(ins, body, r) ==
    IF ~ins.ok \/ ~Cacheable(body) \/ body \in Range(ins.run)
               \/ Len(ins.run) >= r
    THEN Void
    ELSE [ins EXCEPT !.run = Append(@, body)]

\* new ParseCache(ttl, maxSize) at time 0, nothing set or looked up yet.
CacheAs(ttl, maxSize) ==
    /\ jsonCache = ParseCache(ttl, maxSize)
    /\ now = 0
    /\ lastSet = [b \in Bodies |-> None]
    /\ inserted = NoRun
    /\ gets = 0
    /\ sets = 0

\* The effect of get(body) on the cache.
DoGet(body) ==
    /\ gets + sets < MaxCalls
    /\ LET r == get(jsonCache, body, now)
       IN  /\ jsonCache' = r.C
           /\ ret' = [op |-> "get", body |-> body, result |-> r.result,
                      at |-> now]
    /\ gets' = gets + 1
    /\ UNCHANGED <<now, sets>>
    /\ UNCHANGED <<poolVars, formVars, ctVars>>

\* The effect of set(body, value) on the cache.
DoSet(body, value) ==
    /\ gets + sets < MaxCalls
    /\ jsonCache' = set(jsonCache, body, value, now)
    /\ ret' = [op |-> "set", body |-> body, value |-> value, at |-> now]
    /\ sets' = sets + 1
    /\ UNCHANGED <<now, gets>>
    /\ UNCHANGED <<poolVars, formVars, ctVars>>

\* The effect of clear() on the cache.
DoClear ==
    /\ jsonCache' = cacheClear(jsonCache)
    /\ ret' = [op |-> "clear", at |-> now]
    /\ UNCHANGED <<now, gets, sets>>
    /\ UNCHANGED <<poolVars, formVars, ctVars>>

\* A request handler looks the body up.
Get(body) == DoGet(body) /\ UNCHANGED <<lastSet, inserted>>

\* A request handler stores the parse result of the body.
Set(body, value) == DoSet(body, value) /\ UNCHANGED <<lastSet, inserted>>

\* The periodic sweep, or any caller of cleanup().
Cleanup ==
    /\ LET r == cleanup(jsonCache, now)
       IN  /\ jsonCache' = r.C
           /\ ret' = [op |-> "cleanup", cleaned |-> r.cleaned, at |-> now]
    /\ UNCHANGED <<now, gets, sets, lastSet, inserted>>
    /\ UNCHANGED <<poolVars, formVars, ctVars>>

\* Operator or test code calls clear().
CacheClear == DoClear /\ UNCHANGED <<lastSet, inserted>>

\* The clock advances by one millisecond (ret keeps the last call, and at
\* the time it was made).
Tick ==
    /\ now < MaxNow
    /\ now' = now + 1
    /\ UNCHANGED <<jsonCache, gets, sets, ret, lastSet, inserted>>
    /\ UNCHANGED <<poolVars, formVars, ctVars>>

\* set(body, value), with the record of what was set kept.
AuditedSet(body, value) ==
    /\ DoSet(body, value)
    /\ lastSet' = [lastSet EXCEPT ![body] = [at |-> now, value |-> value]]
    /\ inserted' = Extend(inserted, body, jsonCache.maxSize + 1)

\* clear(), which ends the record of a run of sets on a new cache.
AuditedClear ==
    /\ DoClear
    /\ inserted' = IF sets = 0 THEN NoRun ELSE Void
    /\ UNCHANGED lastSet

\* The calls on the cache and the clock.
CacheNext ==
    \/ \E body \in Bodies : Get(body)
    \/ \E body \in Bodies, value \in Values : Set(body, value)
    \/ Cleanup
    \/ CacheClear
    \/ Tick

\* The same calls, with the record of what was set kept.
AuditedCacheNext ==
    \/ \E body \in Bodies : Get(body)
    \/ \E body \in Bodies, value \in Values : AuditedSet(body, value)
    \/ Cleanup
    \/ AuditedClear
    \/ Tick

----------------------------------------------------------------------------
(* lib/parse-cache.js: the second cache instance and the cleanup timer     *)

\* The bodies and the value the handlers of the timer model store.
SweptBodies == {StringBody("a=1", 3), StringBody("{id:1,...}", 200)}

\* new ParseCache(ttl, maxSize) for form-encoded bodies, nothing set yet.
FormAs(ttl, maxSize) ==
    /\ urlencodedCache = ParseCache(ttl, maxSize)
    /\ formCalls = 0

\* A request handler stores the parse result of a form-encoded body.
FormSet(body, value) ==
    /\ gets + sets + formCalls < MaxCalls
    /\ urlencodedCache' = set(urlencodedCache, body, value, now)
    /\ formCalls' = formCalls + 1
    /\ ret' = [op |-> "formset", body |-> body, value |-> value, at |-> now]
    /\ UNCHANGED <<cacheVars, poolVars, ctVars>>

\* Mutant: the timer sweeps the JSON cache only.
sweepJsonOnly(J, F, t) == [json |-> cleanup(J, t).C, form |-> F]

\* The callback of the cleanup timer: cleanup() on both caches.
sweep(J, F, t) == [json |-> cleanup(J, t).C, form |-> cleanup(F, t).C]

\* The timer fires.
Sweep ==
    /\ LET r == sweep(jsonCache, urlencodedCache, now)
       IN  /\ jsonCache' = r.json
           /\ urlencodedCache' = r.form
    /\ ret' = [op |-> "sweep", at |-> now]
    /\ UNCHANGED <<now, gets, sets, lastSet, inserted, formCalls>>
    /\ UNCHANGED <<poolVars, ctVars>>

\* Request handlers storing into both caches, the clock and the timer (no
\* get is made, so that only the timer removes what has expired).
SchedulerNext ==
    \/ \E body \in SweptBodies : Set(body, "v")
    \/ \E body \in SweptBodies : FormSet(body, "v")
    \/ Tick
    \/ Sweep

----------------------------------------------------------------------------
(* lib/content-type-cache.js                                               *)

CT_MAX_CACHE_SIZE == 50

\* Bound of the content-type model: parse calls made in the modelled run.
MaxParses == 3

\* A Content-Type header string: text, followed by "; v=<v>" when v > 0.
Header(text, v) == [text |-> text, v |-> v]

\* A parsed media type {type, parameters}.
MediaType(type, charset, v) ==
    [type |-> type, parameters |-> [charset |-> charset, v |-> v]]

\* Object.entries(COMMON_TYPES), in order.
COMMON_TYPES ==
    << [key |-> Header("application/json", 0),
        value |-> MediaType("application/json", "", 0)],
       [key |-> Header("application/json; charset=utf-8", 0),
        value |-> MediaType("application/json", "utf-8", 0)],
       [key |-> Header("application/x-www-form-urlencoded", 0),
        value |-> MediaType("application/x-www-form-urlencoded", "", 0)],
       [key |-> Header("application/x-www-form-urlencoded; charset=utf-8", 0),
        value |-> MediaType("application/x-www-form-urlencoded", "utf-8", 0)],
       [key |-> Header("text/plain", 0),
        value |-> MediaType("text/plain", "", 0)],
       [key |-> Header("text/plain; charset=utf-8", 0),
        value |-> MediaType("text/plain", "utf-8", 0)] >>

\* The seeded header strings.
Seeded == {COMMON_TYPES[i].key : i \in 1..Len(COMMON_TYPES)}

\* The header "text/html; v=<v>": one new header per v.
Dynamic(v) == Header("text/html", v)

\* The empty header, which no media-type parser accepts.
Malformed == Header("", 0)

\* New headers of the model: the first, and the two that meet the capacity
\* of a cache already holding the ones in between.
DynamicIds ==
    {1, CT_MAX_CACHE_SIZE - Len(COMMON_TYPES),
        CT_MAX_CACHE_SIZE - Len(COMMON_TYPES) + 1}

Headers == Seeded \cup {Dynamic(v) : v \in DynamicIds} \cup {Malformed}

\* New headers a warm cache holds when the modelled run starts.
WarmCaches == {CT_MAX_CACHE_SIZE - Len(COMMON_TYPES) - 1}

\* The parser functions callers pass: the media-type parser, and a stub
\* that returns the same result for every well-formed header.
Parsers == {"contentType.parse", "stub"}

Raised == [ok |-> FALSE, value |-> MediaType("", "", 0)]

\* The media type a header text spells (the model's headers only).
typeOf(text) ==
    CASE text \in {"application/json", "application/json; charset=utf-8"}
           -> "application/json"
      [] text \in {"application/x-www-form-urlencoded",
                   "application/x-www-form-urlencoded; charset=utf-8"}
           -> "application/x-www-form-urlencoded"
      [] text \in {"text/plain", "text/plain; charset=utf-8"} -> "text/plain"
      [] OTHER -> text

charsetOf(text) ==
    IF text \in {"application/json; charset=utf-8",
                 "application/x-www-form-urlencoded; charset=utf-8",
                 "text/plain; charset=utf-8"}
    THEN "utf-8" ELSE ""

\* parser(header): a result, or a raised failure.
callParser(parser, header) ==
    IF header.text = "" THEN Raised
    ELSE IF parser = "stub"
    THEN [ok |-> TRUE, value |-> MediaType("stub", "", 0)]
    ELSE [ok |-> TRUE,
          value |-> MediaType(typeOf(header.text), charsetOf(header.text),
                              header.v)]

\* new ContentTypeCache()
ContentTypeCache == [cache |-> COMMON_TYPES, hits |-> 0, misses |-> 0]

\* Mutant: a failed parse is remembered.
parseCachingFailure(G, header, parser) ==
    LET i == IndexOf(G.cache, header)
        r == callParser(parser, header)
    IN  IF i # 0
        THEN [G |-> [G EXCEPT !.hits = @ + 1], result |-> G.cache[i].value,
              raised |-> FALSE, called |-> FALSE]
        ELSE [G |-> [G EXCEPT !.misses = @ + 1,
                       !.cache = IF Len(@) < CT_MAX_CACHE_SIZE
                                 THEN Append(@, [key |-> header,
                                                 value |-> r.value])
                                 ELSE @],
              result |-> r.value, raised |-> ~r.ok, called |-> TRUE]

\* Mutant: a cached header is parsed again and its entry replaced.
parseOverwriting(G, header, parser) ==
    LET i == IndexOf(G.cache, header)
        r == callParser(parser, header)
    IN  IF ~r.ok
        THEN [G |-> [G EXCEPT !.misses = @ + 1], result |-> r.value,
              raised |-> TRUE, called |-> TRUE]
        ELSE IF i # 0
        THEN [G |-> [G EXCEPT !.hits = @ + 1,
                              !.cache[i].value = r.value],
              result |-> r.value, raised |-> FALSE, called |-> TRUE]
        ELSE [G |-> [G EXCEPT !.misses = @ + 1,
                       !.cache = IF Len(@) < CT_MAX_CACHE_SIZE
                                 THEN Append(@, [key |-> header,
                                                 value |-> r.value])
                                 ELSE @],
              result |-> r.value, raised |-> FALSE, called |-> TRUE]

\* ContentTypeCache.parse(header, parser): the cache after the call, what
\* it returned or that it raised, and whether parser was invoked. The miss
\* is counted before parser runs, so it stays counted when parser raises.
parse(G, header, parser) ==
    LET i == IndexOf(G.cache, header)
        r == callParser(parser, header)
    IN  IF i # 0
        THEN [G |-> [G EXCEPT !.hits = @ + 1], result |-> G.cache[i].value,
              raised |-> FALSE, called |-> FALSE]
        ELSE IF ~r.ok
        THEN [G |-> [G EXCEPT !.misses = @ + 1], result |-> r.value,
              raised |-> TRUE, called |-> TRUE]
        ELSE [G |-> [G EXCEPT !.misses = @ + 1,
                       !.cache = IF Len(@) < CT_MAX_CACHE_SIZE
                                 THEN Append(@, [key |-> header,
                                                 value |-> r.value])
                                 ELSE @],
              result |-> r.value, raised |-> FALSE, called |-> TRUE]

\* ContentTypeCache.stats(); hitRate is kept as the pair hits / (hits + misses).
ctStats(G) ==
    [size |-> Len(G.cache), hits |-> G.hits, misses |-> G.misses,
     hitRate |-> IF G.hits + G.misses = 0 THEN <<0, 1>>
                 ELSE <<G.hits, G.hits + G.misses>>]

\* Mutant: clear() keeps what was cached.
ctClearNothing(G) == G

\* ContentTypeCache.clear()
ctClear(G) == [G EXCEPT !.cache = COMMON_TYPES]

\* The cache after parse(Dynamic(v), contentType.parse) for v = 1..n, all
\* misses (n = 0: new ContentTypeCache()).
CTAfter(n) ==
    /\ globalCache =
          [ContentTypeCache EXCEPT
              !.cache = @ \o [v \in 1..n |->
                                [key |-> Dynamic(v),
                                 value |-> MediaType("text/html", "", v)]],
              !.misses = n]
    /\ ctCalls = [run |-> 0, parses |-> n, parser |-> n, returned |-> n]

\* A request handler calls parse(header, parser).
Parse(header, parser) ==
    /\ ctCalls.run < MaxParses
    /\ LET r == parse(globalCache, header, parser)
       IN  /\ globalCache' = r.G
           /\ ret' = [op |-> "parse", header |-> header, parser |-> parser,
                      result |-> r.result, raised |-> r.raised,
                      called |-> r.called,
                      known |-> IndexOf(globalCache.cache, header) # 0,
                      size |-> Len(globalCache.cache)]
           /\ ctCalls' = [run |-> ctCalls.run + 1,
                          parses |-> ctCalls.parses + 1,
                          parser |-> ctCalls.parser
                                        + (IF r.called THEN 1 ELSE 0),
                          returned |-> ctCalls.returned
                                        + (IF r.raised THEN 0 ELSE 1)]
    /\ UNCHANGED <<cacheVars, poolVars, formVars>>

\* Operator or test code calls clear().
CTClear ==
    /\ globalCache' = ctClear(globalCache)
    /\ ret' = [op |-> "clear", size |-> Len(globalCache.cache)]
    /\ UNCHANGED ctCalls
    /\ UNCHANGED <<cacheVars, poolVars, formVars>>

\* The calls on the content-type cache.
CTNext ==
    \/ \E header \in Headers, parser \in Parsers : Parse(header, parser)
    \/ CTClear

vars == <<globalPool, mem, callers, warm, ret, jsonCache, now, lastSet,
          inserted, gets, sets, poolAudit, urlencodedCache, formCalls,
          globalCache, ctCalls>>

\* Construction: the global pool and the global cache instances.
Init ==
    /\ PoolAfter(0)
    /\ CacheAs(DEFAULT_TTL, MAX_CACHE_SIZE)
    /\ FormAs(DEFAULT_TTL, MAX_CACHE_SIZE)
    /\ CTAfter(0)
    /\ ret = [op |-> "init"]

Next == PoolNext \/ CacheNext \/ SchedulerNext \/ CTNext

Spec == Init /\ [][Next]_vars

\* The buffer pool alone, from new BufferPool().
PoolSpec == Init /\ [][PoolNext]_vars

\* A warm pool: the pool left by a run of acquire(POOL_SIZE) misses
\* followed by as many releases.
WarmPoolInit ==
    /\ \E n \in WarmPools : PoolAfter(n)
    /\ CacheAs(DEFAULT_TTL, MAX_CACHE_SIZE)
    /\ FormAs(DEFAULT_TTL, MAX_CACHE_SIZE)
    /\ CTAfter(0)
    /\ ret = [op |-> "init"]

\* The buffer pool alone, from a warm pool.
WarmPoolSpec == WarmPoolInit /\ [][PoolNext]_vars

\* A cache constructed with a configured ttl and maxSize.
CacheInit ==
    /\ PoolAfter(0)
    /\ \E ttl \in TTLs, maxSize \in MaxSizes : CacheAs(ttl, maxSize)
    /\ FormAs(DEFAULT_TTL, MAX_CACHE_SIZE)
    /\ CTAfter(0)
    /\ ret = [op |-> "init"]

\* A Body Parse Cache alone.
CacheSpec == CacheInit /\ [][CacheNext]_vars

\* A Body Parse Cache alone, with the record of what was set.
AuditedCacheSpec == CacheInit /\ [][AuditedCacheNext]_vars

\* Both caches constructed with the same configured ttl.
SchedulerInit ==
    /\ PoolAfter(0)
    /\ \E ttl \in TTLs :
          CacheAs(ttl, MAX_CACHE_SIZE) /\ FormAs(ttl, MAX_CACHE_SIZE)
    /\ CTAfter(0)
    /\ ret = [op |-> "init"]

\* The two caches and the cleanup timer. setInterval calls the callback
\* again and again for as long as the process runs: the timer is weakly fair.
SchedulerSpec ==
    SchedulerInit /\ [][SchedulerNext]_vars /\ WF_vars(Sweep)

\* The content-type cache alone, from new ContentTypeCache().
CTSpec == Init /\ [][CTNext]_vars

\* A warm content-type cache: the cache left by a run of parse calls of new
\* headers.
WarmCTInit ==
    /\ PoolAfter(0)
    /\ CacheAs(DEFAULT_TTL, MAX_CACHE_SIZE)
    /\ FormAs(DEFAULT_TTL, MAX_CACHE_SIZE)
    /\ \E n \in WarmCaches : CTAfter(n)
    /\ ret = [op |-> "init"]

\* The content-type cache alone, from a warm cache.
WarmCTSpec == WarmCTInit /\ [][CTNext]_vars

----------------------------------------------------------------------------
(* Claims: the buffer pool                                                 *)

\* C1: with every acquired buffer released at most once and never written
\* after its release, every idle buffer is entirely zero, and so is every
\* buffer an acquire returns from the pool (a hit).
C1_IdleBuffersZero ==
    /\ \A i \in 1..Len(globalPool.pool) : AllZero(mem, globalPool.pool[i])
    /\ (ret.op = "acquire" /\ ret.hit) => AllZero(mem, ret.buf)

\* An acquire is served with the storage of a buffer that held non-zero
\* bytes when the call before released it.
C1_Witness ==
    /\ ret.op = "acquire" /\ ret.hit /\ ret.recycled
    /\ AllZero(mem, ret.buf)

\* C2: acquire(s) returns a buffer of length >= s: exactly s on a hit,
\* max(s, POOL_SIZE) on a miss with s <= 2 * POOL_SIZE, and s (a miss) when
\* s > 2 * POOL_SIZE.
C2_AcquireLength ==
    ret.op = "acquire" =>
        /\ ret.buf.store \in DOMAIN mem
        /\ ret.buf.length >= ret.size
        /\ ret.hit => ret.buf.length = ret.size
        /\ (~ret.hit /\ ret.size <= 2 * POOL_SIZE)
               => ret.buf.length = Max(ret.size, POOL_SIZE)
        /\ ret.size > 2 * POOL_SIZE
               => (~ret.hit /\ ret.buf.length = ret.size)

\* A hit served by trimming a longer idle buffer.
C2_Witness ==
    /\ ret.op = "acquire" /\ ret.hit
    /\ ret.idle.length > ret.size
    /\ ret.buf.length = ret.size

\* C3: the idle set never holds more than MAX_POOL_ENTRIES buffers, and a
\* release made when it holds MAX_POOL_ENTRIES leaves the pool as it was.
C3_PoolBounded ==
    /\ [](Len(globalPool.pool) <= MAX_POOL_ENTRIES)
    /\ [][(ret'.op = "release"
             /\ Len(globalPool.pool) = MAX_POOL_ENTRIES)
            => globalPool' = globalPool]_vars

\* A buffer of poolable length was released to a full pool and discarded.
C3_Witness ==
    /\ ret.op = "release" /\ ~ret.pooled
    /\ ret.buf.length <= 2 * POOL_SIZE
    /\ Len(globalPool.pool) = MAX_POOL_ENTRIES

\* The handlers holding a buffer.
Holders == {c \in Callers : callers[c].pc = "holding"}

\* C15: with handlers interleaving whole operations, hits + misses is the
\* number of acquire calls completed, hits the number of them served from
\* the idle set, and the size stats() reports the number of buffers that
\* went idle and have not been taken or cleared since.
C15_StatsConsistent ==
    LET st == poolStats(globalPool)
    IN  /\ st.hits + st.misses = poolAudit.acquires
        /\ st.hits = poolAudit.served
        /\ st.size = poolAudit.idle
        /\ st.size = Len(globalPool.pool)

\* Both handlers hold a buffer, one of them served from the idle set
\* while the other held its own.
C15_Witness ==
    /\ Holders = Callers
    /\ ret.op = "acquire" /\ ret.hit
    /\ poolAudit.acquires = 3
    /\ poolAudit.served = 1

\* C19: with every buffer released at most once, no storage is held by
\* two handlers, none is both held and idle, none is idle twice; and a hit
\* removes from the idle set the buffer it returns (trimmed or not) and
\* no other, the rest keeping their order.
C19_Exclusive ==
    /\ [](/\ \A c, d \in Holders :
                c # d => callers[c].buf.store # callers[d].buf.store
          /\ \A c \in Holders, i \in 1..Len(globalPool.pool) :
                callers[c].buf.store # globalPool.pool[i].store
          /\ \A i, j \in 1..Len(globalPool.pool) :
                i # j => globalPool.pool[i].store # globalPool.pool[j].store)
    /\ [][poolAudit'.served = poolAudit.served + 1
            => \E i \in 1..Len(globalPool.pool) :
                  /\ globalPool.pool[i].store = ret'.buf.store
                  /\ globalPool.pool[i].length >= ret'.buf.length
                  /\ globalPool'.pool = RemoveAt(globalPool.pool, i)]_vars

\* A hit took the second of the two buffers the handlers had released,
\* the first being too short, and left the first idle.
C19_Witness ==
    /\ ret.op = "acquire" /\ ret.hit
    /\ Len(globalPool.pool) = 1
    /\ globalPool.pool[1].length < ret.size
    /\ globalPool.pool[1].store # ret.buf.store

----------------------------------------------------------------------------
(* Claims: the body parse cache                                            *)

\* The entry of the cache under the key of the body, if any.
HasKey(C, body) == IndexOf(C.cache, _generateKey(body)) # 0

\* The entries of a cache other than the one under key, in order.
Others(cache, key) ==
    LET keep[i \in 0..Len(cache)] ==
            IF i = 0 THEN <<>>
            ELSE IF cache[i].key = key THEN keep[i - 1]
            ELSE Append(keep[i - 1], cache[i])
    IN  keep[Len(cache)]

\* C4: get never returns the value of an entry whose expiry timestamp has
\* passed; if the latest set for the body was made more than ttl before the
\* get, get returns not-found and the cache holds no entry for the body.
C4_NoStaleHit ==
    ret.op = "get" =>
        /\ ret.result # Null =>
              \E i \in 1..Len(jsonCache.cache) :
                  /\ jsonCache.cache[i].key = _generateKey(ret.body)
                  /\ jsonCache.cache[i].value = ret.result
                  /\ ~(ret.at > jsonCache.cache[i].expiresAt)
        /\ (lastSet[ret.body] # None
              /\ ret.at - lastSet[ret.body].at > jsonCache.ttl)
              => (ret.result = Null /\ ~HasKey(jsonCache, ret.body))

\* C4, with "the latest set for the body" read as the latest set of any body
\* with the same key: the form the code satisfies.
C4_NoStaleHitPerKey ==
    ret.op = "get" =>
        /\ ret.result # Null =>
              \E i \in 1..Len(jsonCache.cache) :
                  /\ jsonCache.cache[i].key = _generateKey(ret.body)
                  /\ jsonCache.cache[i].value = ret.result
                  /\ ~(ret.at > jsonCache.cache[i].expiresAt)
        /\ (\A b \in Bodies :
               (Cacheable(b) /\ _generateKey(b) = _generateKey(ret.body))
                   => ret.at - lastSet[b].at > jsonCache.ttl)
              => (ret.result = Null /\ ~HasKey(jsonCache, ret.body))

\* C5: with maxSize >= 1 the cache never holds more than maxSize entries;
\* a set that finds it holding maxSize entries removes the oldest entry and
\* no other, keeps the order of the rest, and counts one eviction.
C5_BoundedFifo ==
    /\ [](jsonCache.maxSize >= 1
            => Len(jsonCache.cache) <= jsonCache.maxSize)
    /\ [][(/\ sets' = sets + 1
           /\ Cacheable(ret'.body)
           /\ jsonCache.maxSize >= 1
           /\ Len(jsonCache.cache) = jsonCache.maxSize)
          => LET key == _generateKey(ret'.body)
                 old == jsonCache.cache
             IN  /\ jsonCache'.evictions = jsonCache.evictions + 1
                 /\ Others(jsonCache'.cache, key) = Others(Tail(old), key)
                 /\ old[1].key # key
                       => IndexOf(jsonCache'.cache, old[1].key) = 0
                 /\ Len(jsonCache'.cache) >= Len(old) - 1]_vars

\* A cache configured for two entries has evicted and is full again.
C5_Witness ==
    /\ ret.op = "set"
    /\ jsonCache.maxSize = 2
    /\ Len(jsonCache.cache) = 2
    /\ jsonCache.evictions = 1

\* C6: setting maxSize + 1 distinct cacheable bodies on a new cache, no
\* entry expiring meanwhile, evicts exactly once, and what remains are the
\* entries of the bodies after the first, in the order they were set.
C6_FifoOverflow ==
    LET run == inserted.run
        n   == Len(run)
    IN  (/\ inserted.ok
         /\ jsonCache.maxSize >= 1
         /\ n = jsonCache.maxSize + 1
         /\ now <= lastSet[run[1]].at + jsonCache.ttl)
        => /\ jsonCache.evictions = 1
           /\ Keys(jsonCache.cache)
                 = [i \in 1..(n - 1) |-> _generateKey(run[i + 1])]

\* C6 for bodies with pairwise different keys: the form the code satisfies.
C6_FifoOverflowDistinctKeys ==
    (\A i, j \in 1..Len(inserted.run) :
         i # j => _generateKey(inserted.run[i]) # _generateKey(inserted.run[j]))
        => C6_FifoOverflow

\* C7: set(body, v) of a cacheable body, immediately followed by get(body)
\* with the clock not advanced, returns v and counts a hit.
C7_RoundTrip ==
    [][(/\ ret.op = "set"
        /\ Cacheable(ret.body)
        /\ ret.at = now
        /\ gets' = gets + 1
        /\ ret'.body = ret.body)
       => /\ ret'.result = ret.value
          /\ jsonCache'.hits = jsonCache.hits + 1
          /\ jsonCache'.misses = jsonCache.misses]_vars

\* A get returned the value just set on a cache whose ttl is 0.
C7_Witness ==
    /\ ret.op = "get"
    /\ ret.result # Null
    /\ jsonCache.ttl = 0
    /\ jsonCache.hits = 1

\* C8: distinct cacheable bodies have different keys, so a get(b) that hits
\* returns the value of the latest set(b, v) of that same body.
C8_HitReturnsOwnValue ==
    (ret.op = "get" /\ ret.result # Null)
        => ret.result = lastSet[ret.body].value

\* C9: set of a body over the maximum cacheable size leaves the cache as
\* it was (entries, order, counters), and get of such a body returns
\* not-found.
C9_SizeGate ==
    /\ [][(sets' = sets + 1 /\ ~Cacheable(ret'.body))
            => jsonCache' = jsonCache]_vars
    /\ []((ret.op = "get" /\ ~Cacheable(ret.body)) => ret.result = Null)

\* An oversize body was set on a full cache, which a cacheable body would
\* have made evict.
C9_Witness ==
    /\ ret.op = "set"
    /\ ~Cacheable(ret.body)
    /\ jsonCache.maxSize >= 1
    /\ Len(jsonCache.cache) = jsonCache.maxSize
    /\ jsonCache.evictions = 0

\* C16: cleanup() removes the entries whose expiry timestamp has passed
\* and no other, returns how many it removed, keeps the order of the rest,
\* and leaves the hit, miss and eviction counters as they were.
C16_CleanupExact ==
    [][(ret'.op = "cleanup" /\ now' = now)
       => LET old  == jsonCache.cache
              live == SelectSeq(old, LAMBDA e : e.expiresAt >= now)
          IN  /\ jsonCache'.cache = live
              /\ ret'.cleaned
                    = Cardinality({i \in 1..Len(old) : now > old[i].expiresAt})
              /\ ret'.cleaned = Len(old) - Len(jsonCache'.cache)
              /\ jsonCache'.hits = jsonCache.hits
              /\ jsonCache'.misses = jsonCache.misses
              /\ jsonCache'.evictions = jsonCache.evictions]_vars

\* cleanup() removed the expired one of three entries and kept the two
\* that had not expired.
C16_Witness ==
    /\ ret.op = "cleanup"
    /\ ret.at = now
    /\ ret.cleaned = 1
    /\ jsonCache.evictions = 0
    /\ Len(jsonCache.cache) = 2
    /\ \A i \in 1..2 : jsonCache.cache[i].expiresAt >= now

\* C20: with fewer than maxSize entries cached, set(body, v) of a body
\* whose key is cached replaces the value and the expiry timestamp of that
\* entry, and changes neither its position in the eviction order, nor any
\* other entry, nor the size, nor a counter.
C20_ResetInPlace ==
    [][(/\ sets' = sets + 1
        /\ Cacheable(ret'.body)
        /\ Len(jsonCache.cache) < jsonCache.maxSize
        /\ HasKey(jsonCache, ret'.body))
       => LET key == _generateKey(ret'.body)
              old == jsonCache.cache
              new == jsonCache'.cache
              i   == IndexOf(old, key)
          IN  /\ Len(new) = Len(old)
              /\ new[i] = [key |-> key, value |-> ret'.value,
                           expiresAt |-> now + jsonCache.ttl]
              /\ \A j \in 1..Len(old) : j # i => new[j] = old[j]
              /\ jsonCache'.evictions = jsonCache.evictions
              /\ jsonCache'.hits = jsonCache.hits
              /\ jsonCache'.misses = jsonCache.misses]_vars

\* The older of two entries was set again, a millisecond after it was
\* first set, and is still the first in the eviction order.
C20_Witness ==
    /\ ret.op = "set"
    /\ sets = 3
    /\ jsonCache.maxSize = 3
    /\ jsonCache.evictions = 0
    /\ Len(jsonCache.cache) = 2
    /\ jsonCache.cache[1].key = _generateKey(ret.body)
    /\ jsonCache.cache[1].value = ret.value
    /\ jsonCache.cache[1].expiresAt > jsonCache.cache[2].expiresAt

\* C10: every get call counts as a hit or as a miss: hits + misses is the
\* number of get calls made.
C10_GetsCounted == jsonCache.hits + jsonCache.misses = gets

----------------------------------------------------------------------------
(* Claims: the content-type cache                                          *)

\* The seeded result of a seeded header.
SeededValue(header) ==
    COMMON_TYPES[CHOOSE i \in 1..Len(COMMON_TYPES) :
                     COMMON_TYPES[i].key = header].value

\* The entries of the cache that are not seeded ones.
DynamicEntries(G) == {i \in 1..Len(G.cache) : G.cache[i].key \notin Seeded}

\* C11: after any parse and clear calls, every seeded header is cached with
\* its seeded result and nothing else, and parse of a seeded header returns
\* that result, does not invoke parser, and counts a hit.
C11_SeededHits ==
    /\ [](\A h \in Seeded :
             \E i \in 1..Len(globalCache.cache) :
                 /\ globalCache.cache[i] = [key |-> h, value |-> SeededValue(h)]
                 /\ \A j \in 1..Len(globalCache.cache) :
                        globalCache.cache[j].key = h => j = i)
    /\ [][(ctCalls'.run = ctCalls.run + 1 /\ ret'.header \in Seeded)
            => /\ ~ret'.raised
               /\ ret'.result = SeededValue(ret'.header)
               /\ ctCalls'.parser = ctCalls.parser
               /\ globalCache'.hits = globalCache.hits + 1
               /\ globalCache'.misses = globalCache.misses]_vars

\* A seeded header was parsed, with the stub passed as parser, on a cache
\* that had parsed a new header and been cleared.
C11_Witness ==
    /\ ret.op = "parse"
    /\ ret.header \in Seeded
    /\ ret.parser = "stub"
    /\ ret.result = SeededValue(ret.header)
    /\ globalCache.hits = 1
    /\ globalCache.misses = 1
    /\ ctCalls.returned = 2
    /\ Len(globalCache.cache) = Len(COMMON_TYPES)

\* C12: clear() leaves exactly the seeded entries (as many as were seeded,
\* with their seeded results), and a parse of a new header right after it
\* is a miss, whatever was cached before.
C12_ClearToBaseline ==
    /\ [](ret.op = "clear"
            => /\ globalCache.cache = COMMON_TYPES
               /\ ctStats(globalCache).size = Len(COMMON_TYPES)
               /\ ctStats(globalCache).size > 0)
    /\ [][(/\ ret.op = "clear"
           /\ ctCalls'.run = ctCalls.run + 1
           /\ ret'.header \notin Seeded)
          => /\ ret'.called
             /\ globalCache'.hits = globalCache.hits
             /\ globalCache'.misses = globalCache.misses + 1]_vars

\* clear() was called on a cache holding two headers more than the seeded.
C12_Witness ==
    /\ ret.op = "clear"
    /\ ret.size = Len(COMMON_TYPES) + 2
    /\ Len(globalCache.cache) = Len(COMMON_TYPES)

\* C13: when parse misses and parser raises, parse raises, and the cache
\* holds what it held before: no header whose parser raises is ever
\* cached, so every parse of it invokes parser.
C13_FailureNotCached ==
    /\ [][(ctCalls'.run = ctCalls.run + 1
             /\ ~ret'.known
             /\ ~callParser(ret'.parser, ret'.header).ok)
            => /\ ret'.raised
               /\ ret'.called
               /\ globalCache'.cache = globalCache.cache]_vars
    /\ [](\A i \in 1..Len(globalCache.cache), q \in Parsers :
              callParser(q, globalCache.cache[i].key).ok)

\* The same malformed header was parsed twice, and parser invoked twice.
C13_Witness ==
    /\ ret.op = "parse"
    /\ ret.raised
    /\ ctCalls.parses = 2
    /\ ctCalls.parser = 2
    /\ ctCalls.returned = 0

\* C14: parse stores the result of a new header that parsed successfully
\* whenever fewer than CT_MAX_CACHE_SIZE entries are dynamic ones.
C14_SeededNotCounted ==
    (/\ ret.op = "parse"
     /\ ~ret.raised
     /\ ~ret.known
     /\ Cardinality(DynamicEntries(globalCache)) < CT_MAX_CACHE_SIZE)
        => IndexOf(globalCache.cache, ret.header) # 0

\* C14, with the seeded entries counted toward the capacity: the form the
\* code satisfies.
C14_SeededCounted ==
    (/\ ret.op = "parse"
     /\ ~ret.raised
     /\ ~ret.known
     /\ ret.size < CT_MAX_CACHE_SIZE)
        => IndexOf(globalCache.cache, ret.header) # 0

\* C18: a parse call whose parser raises changes neither counter: hits +
\* misses is the number of parse calls that returned a result.
C18_MissAfterSuccess ==
    globalCache.hits + globalCache.misses = ctCalls.returned

----------------------------------------------------------------------------
(* Claims: the cleanup timer                                               *)

\* The cache holds, under key, an entry whose expiry timestamp has passed.
HoldsExpired(C, key) ==
    \E i \in 1..Len(C.cache) :
        C.cache[i].key = key /\ now > C.cache[i].expiresAt

\* C17: with the timer firing for as long as the process runs, an expired
\* entry of the JSON cache or of the form-encoded cache does not stay: it
\* is removed (or set again), whether or not a get or set is ever made.
C17_ExpiredSwept ==
    \A key \in {_generateKey(body) : body \in SweptBodies} :
        /\ HoldsExpired(jsonCache, key) ~> ~HoldsExpired(jsonCache, key)
        /\ HoldsExpired(urlencodedCache, key)
              ~> ~HoldsExpired(urlencodedCache, key)

\* The timer has emptied both caches of entries that had expired, no get
\* having been made.
C17_Witness ==
    /\ ret.op = "sweep"
    /\ gets = 0
    /\ sets >= 1
    /\ formCalls >= 1
    /\ now >= 1
    /\ jsonCache.cache = <<>>
    /\ urlencodedCache.cache = <<>>

====
